---- MODULE Spec2Model ----
(***************************************************************************)
(* Model of the biasbreaker backend's ingestion-and-status pipeline:       *)
(*   app/db/cruds.py        create_initial_record, update_file_record      *)
(*   app/services/process.py ml_analysis_s3, ml_analysis_drive             *)
(*   app/main.py            upload_files, get_folder, reset_history,       *)
(*                          save_to_history                                *)
(*                                                                         *)
(* Job ids stand for uuid4 values: <<"up", i>> is the id generated for the *)
(* i-th file of the upload request, <<"dr", k>> the id generated for the   *)
(* k-th entry of the drive task's file list.                               *)
(*                                                                         *)
(* Store faults: db.commit() and db.refresh() inside create_initial_record *)
(* and update_file_record may raise.  "commit" = commit raised, nothing    *)
(* persisted; "refresh" = commit succeeded, the following refresh raised.  *)
(*                                                                         *)
(* Scope: a behaviour holds one ingestion request (an upload or a folder   *)
(* request) and any number of reset_history calls by any user.  The        *)
(* background tasks of a request are scheduled independently of each other *)
(* once the response has been sent; a request that raises sends an error   *)
(* response, which carries no background tasks.                            *)
(***************************************************************************)
EXTENDS Integers, Sequences, FiniteSets, TLC

\* ---------------------------------------------------------------- bounds
MaxUpload == 2
MaxListing == 2
MaxSaves == 3

\* ------------------------------------------------------ program constants
HistoryCap == 100

\* AnalysisStatus (models.py)
FAILED == "failed"
PENDING == "pending"
COMPLETED == "completed"
PROCESSING == "processing"
AnalysisStatus == {FAILED, PENDING, COMPLETED, PROCESSING}

FolderMime == "application/vnd.google-apps.folder"
PdfMime == "application/pdf"

Users == {"u1", "u2"}
\* The user whose token the ingestion request carries; users are
\* interchangeable, and reset_history is called by any of them.
Requesters == {"u1"}

\* Python None for the optional arguments of update_file_record, and for s3_key
NoScore == -1
NoDetails == "None"
NoS3Key == 0
EmptyDetails == "{}"
NoKey == -1

Faults == {"none", "commit", "refresh"}

FileName(i) == <<"a.pdf", "b.docx", "c.txt", "d.pdf", "e.pdf">>[i]

UploadIds == {<<"up", i>> : i \in 1..MaxUpload}
DriveIds == {<<"dr", k>> : k \in 1..MaxListing}
JobIds == UploadIds \cup DriveIds

VARIABLES
    jobs,                 \* resume_analyses table: job id -> row
    blobs,                \* keys present in the bucket
    upPc, upUser, upN, upIdx,   \* the /upload request
    tasks,                \* ml_analysis_s3 tasks, by upload index
    drPc, drUser, drStatus, drListing, drFiles,   \* the /get-folder request
    dtask,                \* the ml_analysis_drive task
    resp,                 \* what the scoring service answered for a job
    termCalls,            \* update_file_record calls with a terminal status, per job
    creates,              \* committed create_initial_record calls, per job id
    faulted,              \* job ids for which a store operation raised
    noops,                \* job ids for which update_file_record found no row
    posts,                \* POSTs issued to the scoring service, per job
    analysis_history,     \* users.analysis_history, per user
    processed_filenames,  \* users.processed_filenames, per user
    saves,                \* number of save_to_history calls made
    lastSave,             \* the last save_to_history call: user and new_results
    savers,               \* callers of save_to_history that loaded the user row first
    lastReset,            \* the last reset_history call: user and failing deletions
    extraction            \* the last extract_text call: document and result

vars == <<jobs, blobs, upPc, upUser, upN, upIdx, tasks, drPc, drUser, drStatus, drListing,
          drFiles, dtask, resp, termCalls, creates, faulted, noops, posts,
          analysis_history, processed_filenames, saves, lastSave,
          savers, lastReset, extraction>>

pipeVars == <<jobs, blobs, upPc, upUser, upN, upIdx, tasks, drPc, drUser, drStatus, drListing,
              drFiles, dtask, resp, termCalls, creates, faulted, noops, posts>>
histVars == <<analysis_history, processed_filenames, saves, lastSave>>
auxVars == <<savers, lastReset, extraction>>

\* ------------------------------------------------------------ job store

\* Mutant of NewRow: the status is left to the column default, PENDING.
NewRowDefault(user, filename, s3key) ==
    [owner |-> user, filename |-> filename, s3_key |-> s3key,
     status |-> PENDING, score |-> 0, details |-> EmptyDetails]

NewRow(user, filename, s3key) ==
    [owner |-> user, filename |-> filename, s3_key |-> s3key,
     status |-> PROCESSING, score |-> 0, details |-> EmptyDetails]

\* Mutant of CreateInitialRecord: the row is added to the session and never
\* committed, so no other session finds it.
CreateUncommitted(js, id, user, filename, s3key, fault) ==
    [jobs |-> js, raised |-> fault # "none"]

\* create_initial_record: add the row, commit, refresh; on an exception
\* rollback and re-raise.  A commit that raised persisted nothing; a refresh
\* that raised comes after the commit.
CreateInitialRecord(js, id, user, filename, s3key, fault) ==
    [jobs   |-> IF fault = "commit" THEN js
                ELSE [j \in DOMAIN js \cup {id} |->
                        IF j = id THEN NewRow(user, filename, s3key) ELSE js[j]],
     raised |-> fault # "none"]

\* Mutant of UpdateFileRecord: the query has lost its filter on the id, every
\* row is written.
UpdateEveryRow(js, id, status, score, details, fault) ==
    [jobs   |-> [j \in DOMAIN js |->
                   [js[j] EXCEPT !.status = status,
                                 !.score = IF score # NoScore THEN score ELSE @,
                                 !.details = IF details # NoDetails THEN details ELSE @]],
     raised |-> FALSE,
     ret    |-> IF id \in DOMAIN js THEN "record" ELSE "None"]

\* Mutant of UpdateFileRecord: a missing row is created (an upsert).
UpsertFileRecord(js, id, status, score, details, fault) ==
    [jobs   |-> IF fault = "commit" THEN js
                ELSE [j \in DOMAIN js \cup {id} |->
                        IF j = id
                        THEN [owner |-> "u1", filename |-> "", s3_key |-> NoS3Key,
                              status |-> status,
                              score |-> IF score # NoScore THEN score ELSE 0,
                              details |-> IF details # NoDetails THEN details
                                          ELSE EmptyDetails]
                        ELSE js[j]],
     raised |-> fault # "none",
     ret    |-> "record"]

\* Mutant of UpdateFileRecord: the status is committed on its own, score and
\* details are left for a later commit.
UpdateStatusFirst(js, id, status, score, details, fault) ==
    IF id \in DOMAIN js
    THEN [jobs   |-> IF fault = "commit" THEN js
                     ELSE [js EXCEPT ![id] = [@ EXCEPT !.status = status]],
          raised |-> fault # "none",
          ret    |-> "record"]
    ELSE [jobs |-> js, raised |-> FALSE, ret |-> "None"]

\* update_file_record: look the row up; when found, set status, set score and
\* details when given, commit, refresh; return the row or None.
UpdateFileRecord(js, id, status, score, details, fault) ==
    IF id \in DOMAIN js
    THEN [jobs   |-> IF fault = "commit" THEN js
                     ELSE [js EXCEPT ![id] =
                             [@ EXCEPT !.status = status,
                                       !.score = IF score # NoScore THEN score ELSE @,
                                       !.details = IF details # NoDetails THEN details ELSE @]],
          raised |-> fault # "none",
          ret    |-> "record"]
    ELSE [jobs |-> js, raised |-> FALSE, ret |-> "None"]

\* One call of update_file_record by a task, with the bookkeeping of the call.
\* Without a row no commit or refresh is run, so none can raise.
CallUpdate(id, status, score, details, fault) ==
    LET r == UpdateFileRecord(jobs, id, status, score, details, fault) IN
    /\ id \notin DOMAIN jobs => fault = "none"
    /\ jobs' = r.jobs
    /\ termCalls' = [termCalls EXCEPT ![id] =
                        IF status \in {COMPLETED, FAILED} THEN @ + 1 ELSE @]
    /\ faulted' = IF r.raised THEN faulted \cup {id} ELSE faulted
    /\ noops' = IF r.ret = "None" THEN noops \cup {id} ELSE noops

UpdateRaises(id, fault) == id \in DOMAIN jobs /\ fault # "none"

\* ------------------------------------------------------- scoring service

\* The answer to one POST: 200 with a JSON body, 200 with a body that does not
\* parse, another status, or an exception (transport error, timeout).
Body(i) == [match_score |-> 6 + 2 * (i % 2), analysis_details |-> "d"]
EmptyBody == [match_score |-> NoKey, analysis_details |-> "absent"]
NoBody == [match_score |-> NoKey, analysis_details |-> "unparsed"]

Responses(i) ==
    { [kind |-> "ok", body |-> Body(i)], [kind |-> "ok", body |-> EmptyBody],
      [kind |-> "badbody", body |-> NoBody], [kind |-> "non200", body |-> NoBody],
      [kind |-> "raise", body |-> NoBody] }

NoResp == [kind |-> "none", body |-> NoBody]

\* ml_data.get("match_score", 0) and ml_data.get("analysis_details", {})
GetScore(body) == IF body.match_score = NoKey THEN 0 ELSE body.match_score
GetDetails(body) == IF body.analysis_details = "absent" THEN EmptyDetails
                    ELSE body.analysis_details

\* --------------------------------------------------------------- Init

NoTask == [pc |-> "none", db |-> "none"]

\* Two callers of save_to_history, each holding the user row it loaded.
Callers == {1, 2}
NoSaver == [pc |-> "idle", user |-> "u1", results |-> << >>, history |-> << >>,
            filenames |-> << >>]
NoReset == [user |-> "none", failing |-> {}]
NoExtraction == [called |-> FALSE, mime |-> "none", kind |-> "empty", parts |-> << >>,
                 text |-> << >>, raised |-> FALSE]

Init ==
    /\ jobs = << >>
    /\ blobs = {}
    /\ upPc = "idle" /\ upUser = "u1" /\ upN = 0 /\ upIdx = 0
    /\ tasks = [i \in 1..MaxUpload |-> NoTask]
    /\ drPc = "idle" /\ drUser = "u1" /\ drStatus = 0 /\ drListing = << >> /\ drFiles = << >>
    /\ dtask = [pc |-> "none", idx |-> 0, db |-> "none"]
    /\ resp = [j \in JobIds |-> NoResp]
    /\ termCalls = [j \in JobIds |-> 0]
    /\ creates = [j \in JobIds |-> 0]
    /\ faulted = {}
    /\ noops = {}
    /\ posts = [j \in JobIds |-> 0]
    /\ analysis_history = [u \in Users |-> << >>]
    /\ processed_filenames = [u \in Users |-> << >>]
    /\ saves = 0
    /\ lastSave = [user |-> "u1", results |-> << >>]
    /\ savers = [c \in Callers |-> NoSaver]
    /\ lastReset = NoReset
    /\ extraction = NoExtraction

\* ------------------------------------------------------- upload_files

\* POST /upload arrives with n files from user u.  A behaviour holds one
\* ingestion request: an upload or a folder request.
UploadBegin(u, n) ==
    /\ upPc = "idle" /\ drPc = "idle"
    /\ upPc' = "loop" /\ upUser' = u /\ upN' = n /\ upIdx' = 1
    /\ UNCHANGED <<jobs, blobs, tasks, drPc, drUser, drStatus, drListing, drFiles, dtask,
                   resp, termCalls, creates, faulted, noops>>
    /\ UNCHANGED <<posts, histVars, auxVars>>

\* The request raised: the response carries no background tasks, so the tasks
\* added so far are never run.
DropQueued(ts) == [i \in DOMAIN ts |->
                     IF ts[i].pc = "queued" THEN [ts[i] EXCEPT !.pc = "dropped"] ELSE ts[i]]

\* One iteration of the loop of upload_files: upload_to_s3, then
\* create_initial_record, then add_task; after the last file the request
\* returns.  s3 = "raise" when upload_to_s3 raises.
UploadFile(s3, fault) ==
    /\ upPc = "loop"
    /\ LET i == upIdx
           id == <<"up", i>>
           c == CreateInitialRecord(jobs, id, upUser, FileName(i), i, fault)
       IN
       IF s3 = "raise"
       THEN /\ upPc' = "raised"
            /\ tasks' = DropQueued(tasks)
            /\ UNCHANGED <<jobs, blobs, upIdx, creates, faulted>>
       ELSE /\ blobs' = blobs \cup {i}
            /\ jobs' = c.jobs
            /\ creates' = [creates EXCEPT ![id] = IF fault = "commit" THEN @ ELSE @ + 1]
            /\ IF c.raised
               THEN /\ upPc' = "raised"
                    /\ tasks' = DropQueued(tasks)
                    /\ faulted' = faulted \cup {id}
                    /\ UNCHANGED upIdx
               ELSE /\ tasks' = [tasks EXCEPT ![i] = [pc |-> "queued", db |-> "none"]]
                    /\ upPc' = IF i = upN THEN "returned" ELSE "loop"
                    /\ upIdx' = IF i = upN THEN i ELSE i + 1
                    /\ UNCHANGED faulted
    /\ UNCHANGED <<upUser, upN, drPc, drUser, drStatus, drListing, drFiles, dtask,
                   resp, termCalls, noops>>
    /\ UNCHANGED <<posts, histVars, auxVars>>

\* ------------------------------------------------------- ml_analysis_s3

\* The task starts once the response has been sent: db = SessionLocal(), then
\* the POST to /analyze-s3 is in flight.
S3Start(i) ==
    /\ upPc = "returned"
    /\ tasks[i].pc = "queued"
    /\ tasks' = [tasks EXCEPT ![i] = [pc |-> "post", db |-> "open"]]
    /\ posts' = [posts EXCEPT ![<<"up", i>>] = @ + 1]
    /\ UNCHANGED <<jobs, blobs, upPc, upUser, upN, upIdx, drPc, drUser, drStatus, drListing,
                   drFiles, dtask, resp, termCalls, creates, faulted, noops>>
    /\ UNCHANGED <<histVars, auxVars>>

\* The POST ends with answer r; the body of the try block runs.  An exception
\* (from the POST, from resp.json(), from update_file_record) leads to the
\* except handler; otherwise finally closes the session.
S3Respond(i, r, fault) ==
    /\ tasks[i].pc = "post"
    /\ LET id == <<"up", i>> IN
       /\ resp' = [resp EXCEPT ![id] = r]
       /\ IF r.kind = "ok"
          THEN /\ CallUpdate(id, COMPLETED, GetScore(r.body), GetDetails(r.body), fault)
               /\ tasks' = [tasks EXCEPT ![i] =
                              IF UpdateRaises(id, fault) THEN [pc |-> "handler", db |-> "open"]
                              ELSE [pc |-> "done", db |-> "closed"]]
          ELSE IF r.kind = "non200"
          THEN /\ CallUpdate(id, FAILED, NoScore, NoDetails, fault)
               /\ tasks' = [tasks EXCEPT ![i] =
                              IF UpdateRaises(id, fault) THEN [pc |-> "handler", db |-> "open"]
                              ELSE [pc |-> "done", db |-> "closed"]]
          ELSE /\ fault = "none"
               /\ tasks' = [tasks EXCEPT ![i] = [pc |-> "handler", db |-> "open"]]
               /\ UNCHANGED <<jobs, termCalls, faulted, noops>>
    /\ UNCHANGED <<blobs, upPc, upUser, upN, upIdx, drPc, drUser, drStatus, drListing,
                   drFiles, dtask, creates>>
    /\ UNCHANGED <<posts, histVars, auxVars>>

\* Mutant of S3Handler: after an exception the scoring call is made a second
\* time before the job is given up.
S3HandlerRetry(i, fault) ==
    /\ tasks[i].pc = "handler"
    /\ LET id == <<"up", i>> IN
       IF posts[id] < 2
       THEN /\ fault = "none"
            /\ tasks' = [tasks EXCEPT ![i] = [pc |-> "post", db |-> "open"]]
            /\ posts' = [posts EXCEPT ![id] = @ + 1]
            /\ UNCHANGED <<jobs, termCalls, faulted, noops>>
       ELSE /\ CallUpdate(id, FAILED, NoScore, NoDetails, fault)
            /\ tasks' = [tasks EXCEPT ![i] =
                           [pc |-> IF UpdateRaises(id, fault) THEN "raised" ELSE "done",
                            db |-> "closed"]]
            /\ UNCHANGED posts
    /\ UNCHANGED <<blobs, upPc, upUser, upN, upIdx, drPc, drUser, drStatus, drListing,
                   drFiles, dtask, resp, creates>>
    /\ UNCHANGED <<histVars, auxVars>>

\* except Exception: update_file_record(db, file_id, FAILED); finally: db.close().
\* When this update raises too, the exception leaves the task.
S3Handler(i, fault) ==
    /\ tasks[i].pc = "handler"
    /\ LET id == <<"up", i>> IN
       /\ CallUpdate(id, FAILED, NoScore, NoDetails, fault)
       /\ tasks' = [tasks EXCEPT ![i] =
                      [pc |-> IF UpdateRaises(id, fault) THEN "raised" ELSE "done",
                       db |-> "closed"]]
    /\ UNCHANGED <<blobs, upPc, upUser, upN, upIdx, drPc, drUser, drStatus, drListing,
                   drFiles, dtask, resp, creates>>
    /\ UNCHANGED <<posts, histVars, auxVars>>

\* ----------------------------------------------------------- get_folder

Entry(p, mime) == [id |-> p, name |-> FileName(p), mimeType |-> mime]

\* The listings the Drive API may return: up to MaxListing entries, each a
\* file or a folder.
Listings ==
    UNION { { [p \in 1..n |-> Entry(p, m[p])] : m \in [1..n -> {PdfMime, FolderMime}] }
            : n \in 0..MaxListing }

\* Mutant of IsFile: the filter on the mimeType is gone.
IsFileAny(f) == TRUE

IsFile(f) == f.mimeType # FolderMime

\* Mutant of ListingFailed: the status of the listing call is not looked at.
ListingFailedNever(status) == FALSE

\* if response.status_code != 200: raise HTTPException(400)
ListingFailed(status) == status # 200

\* file_list = [f for f in files if f['mimeType'] != folder]
RECURSIVE FilterFiles(_)
FilterFiles(L) ==
    IF L = << >> THEN << >>
    ELSE IF IsFile(Head(L)) THEN <<Head(L)>> \o FilterFiles(Tail(L))
    ELSE FilterFiles(Tail(L))

\* POST /get-folder: the listing call answers with a status and a listing.
\* Non-200: HTTPException(400).  Empty file_list: "No files found.".
\* Otherwise add_task(ml_analysis_drive, ...) and return.
GetFolder(u, status, L) ==
    /\ drPc = "idle" /\ upPc = "idle"
    /\ drUser' = u
    /\ drStatus' = status
    /\ IF ListingFailed(status)
       THEN /\ drPc' = "rejected"
            /\ UNCHANGED <<drListing, drFiles, dtask>>
       ELSE /\ drListing' = L
            /\ IF FilterFiles(L) = << >>
               THEN /\ drPc' = "nofiles"
                    /\ UNCHANGED <<drFiles, dtask>>
               ELSE /\ drPc' = "queued"
                    /\ drFiles' = FilterFiles(L)
                    /\ dtask' = [pc |-> "queued", idx |-> 0, db |-> "none"]
    /\ UNCHANGED <<jobs, blobs, upPc, upUser, upN, upIdx, tasks,
                   resp, termCalls, creates, faulted, noops>>
    /\ UNCHANGED <<posts, histVars, auxVars>>

\* ---------------------------------------------------- ml_analysis_drive

\* db = SessionLocal(); the loop over files begins.
DriveStart ==
    /\ dtask.pc = "queued"
    /\ dtask' = [pc |-> "create", idx |-> 1, db |-> "open"]
    /\ UNCHANGED <<jobs, blobs, upPc, upUser, upN, upIdx, tasks, drPc, drUser, drStatus,
                   drListing, drFiles, resp, termCalls, creates, faulted, noops>>
    /\ UNCHANGED <<posts, histVars, auxVars>>

\* Mutant of DriveAdvance: the loop is left after the first file handled.
DriveAdvanceBreak(t) == [t EXCEPT !.pc = "closing"]

\* After the file at idx: the next iteration, or the end of the loop.
DriveAdvance(t) ==
    IF t.idx < Len(drFiles) THEN [t EXCEPT !.pc = "create", !.idx = t.idx + 1]
    ELSE [t EXCEPT !.pc = "closing"]

\* Mutant of DriveCreate: the loop goes on to the next file without awaiting
\* the scoring call of the job it has just created.
DriveCreateNoAwait(fault) ==
    /\ dtask.pc = "create"
    /\ LET k == dtask.idx
           id == <<"dr", k>>
           c == CreateInitialRecord(jobs, id, drUser, drFiles[k].name, NoS3Key, fault)
       IN
       /\ jobs' = c.jobs
       /\ creates' = [creates EXCEPT ![id] = IF fault = "commit" THEN @ ELSE @ + 1]
       /\ faulted' = IF c.raised THEN faulted \cup {id} ELSE faulted
       /\ dtask' = IF c.raised THEN [dtask EXCEPT !.pc = "crashed"]
                   ELSE IF k < Len(drFiles) THEN [dtask EXCEPT !.idx = k + 1]
                   ELSE [dtask EXCEPT !.pc = "post"]
       /\ posts' = [posts EXCEPT ![id] = IF c.raised THEN @ ELSE @ + 1]
    /\ UNCHANGED <<blobs, upPc, upUser, upN, upIdx, tasks, drPc, drUser, drStatus,
                   drListing, drFiles, resp, termCalls, noops>>
    /\ UNCHANGED <<histVars, auxVars>>

\* create_initial_record(db, user_id, name, s3_key=None), outside the try: when
\* it raises, the exception leaves the task and db.close() is not reached.
\* Otherwise the POST to /analyze-drive is in flight.
DriveCreate(fault) ==
    /\ dtask.pc = "create"
    /\ LET k == dtask.idx
           id == <<"dr", k>>
           c == CreateInitialRecord(jobs, id, drUser, drFiles[k].name, NoS3Key, fault)
       IN
       /\ jobs' = c.jobs
       /\ creates' = [creates EXCEPT ![id] = IF fault = "commit" THEN @ ELSE @ + 1]
       /\ faulted' = IF c.raised THEN faulted \cup {id} ELSE faulted
       /\ dtask' = [dtask EXCEPT !.pc = IF c.raised THEN "crashed" ELSE "post"]
       /\ posts' = [posts EXCEPT ![id] = IF c.raised THEN @ ELSE @ + 1]
    /\ UNCHANGED <<blobs, upPc, upUser, upN, upIdx, tasks, drPc, drUser, drStatus,
                   drListing, drFiles, resp, termCalls, noops>>
    /\ UNCHANGED <<histVars, auxVars>>

\* The POST ends with answer r; the body of the try block runs.
DriveRespond(r, fault) ==
    /\ dtask.pc = "post"
    /\ LET id == <<"dr", dtask.idx>> IN
       /\ resp' = [resp EXCEPT ![id] = r]
       /\ IF r.kind = "ok"
          THEN /\ CallUpdate(id, COMPLETED, GetScore(r.body), GetDetails(r.body), fault)
               /\ dtask' = IF UpdateRaises(id, fault) THEN [dtask EXCEPT !.pc = "handler"]
                           ELSE DriveAdvance(dtask)
          ELSE IF r.kind = "non200"
          THEN /\ CallUpdate(id, FAILED, NoScore, NoDetails, fault)
               /\ dtask' = IF UpdateRaises(id, fault) THEN [dtask EXCEPT !.pc = "handler"]
                           ELSE DriveAdvance(dtask)
          ELSE /\ fault = "none"
               /\ dtask' = [dtask EXCEPT !.pc = "handler"]
               /\ UNCHANGED <<jobs, termCalls, faulted, noops>>
    /\ UNCHANGED <<blobs, upPc, upUser, upN, upIdx, tasks, drPc, drUser, drStatus,
                   drListing, drFiles, creates>>
    /\ UNCHANGED <<posts, histVars, auxVars>>

\* except Exception: update_file_record(db, record.id, FAILED).  When this
\* update raises too, the exception leaves the task: the remaining files are
\* not processed and db.close() is not reached.
DriveHandler(fault) ==
    /\ dtask.pc = "handler"
    /\ LET id == <<"dr", dtask.idx>> IN
       /\ CallUpdate(id, FAILED, NoScore, NoDetails, fault)
       /\ dtask' = IF UpdateRaises(id, fault) THEN [dtask EXCEPT !.pc = "crashed"]
                   ELSE DriveAdvance(dtask)
    /\ UNCHANGED <<blobs, upPc, upUser, upN, upIdx, tasks, drPc, drUser, drStatus,
                   drListing, drFiles, resp, creates>>
    /\ UNCHANGED <<posts, histVars, auxVars>>

\* The loop is over: the client is closed, then db.close().
DriveClose ==
    /\ dtask.pc = "closing"
    /\ dtask' = [dtask EXCEPT !.pc = "done", !.db = "closed"]
    /\ UNCHANGED <<jobs, blobs, upPc, upUser, upN, upIdx, tasks, drPc, drUser, drStatus,
                   drListing, drFiles, resp, termCalls, creates, faulted, noops>>
    /\ UNCHANGED <<posts, histVars, auxVars>>

\* -------------------------------------------------------- reset_history

OwnedBy(js, u) == {j \in DOMAIN js : js[j].owner = u}

\* Mutant of ResetHistory: a row whose delete_object raised is skipped, not
\* deleted.
ResetHistorySkipFailed(u, failing) ==
    /\ blobs' = blobs \ {jobs[j].s3_key : j \in {x \in OwnedBy(jobs, u) :
                                                  jobs[x].s3_key \notin failing}}
    /\ jobs' = [j \in DOMAIN jobs \ {x \in OwnedBy(jobs, u) : jobs[x].s3_key \notin failing}
                  |-> jobs[j]]
    /\ UNCHANGED <<upPc, upUser, upN, upIdx, tasks, drPc, drUser, drStatus, drListing, drFiles,
                   dtask, resp, termCalls, creates, faulted, noops>>
    /\ UNCHANGED <<posts, histVars, savers, extraction>>

\* DELETE /reset-history by user u: for every row of the user, delete_object
\* (exceptions swallowed), db.delete(row); then commit.  failing = the keys whose
\* delete_object raises; a row without a key (s3_key None) has nothing deleted.
ResetHistory(u, failing) ==
    /\ blobs' = blobs \ {jobs[j].s3_key : j \in {x \in OwnedBy(jobs, u) :
                                                  jobs[x].s3_key \notin failing}}
    /\ jobs' = [j \in DOMAIN jobs \ OwnedBy(jobs, u) |-> jobs[j]]
    /\ UNCHANGED <<upPc, upUser, upN, upIdx, tasks, drPc, drUser, drStatus, drListing, drFiles,
                   dtask, resp, termCalls, creates, faulted, noops>>
    /\ UNCHANGED <<posts, histVars, savers, extraction>>

\* ---------------------------------------------------------- get_history

\* created_at of a row: the jobs of one request are created in file order.
CreatedAt(j) == IF j[1] = "up" THEN j[2] ELSE MaxUpload + j[2]

\* The rows of the set S, newest first.
RECURSIVE NewestFirst(_, _)
NewestFirst(js, S) ==
    IF S = {} THEN << >>
    ELSE LET j == CHOOSE x \in S : \A y \in S : CreatedAt(y) <= CreatedAt(x)
         IN <<[id |-> j, filename |-> js[j].filename, status |-> js[j].status,
               score |-> js[j].score, details |-> js[j].details]>>
            \o NewestFirst(js, S \ {j})

\* GET /history by user u: one query, the user's rows ordered by created_at
\* descending.  It reads the committed rows and changes nothing.
GetHistory(js, u) == NewestFirst(js, OwnedBy(js, u))

\* ------------------------------------------------------ save_to_history

\* Mutant of Take: the slice keeps the end of the list, [-n:].
TakeLast(s, n) == SubSeq(s, IF Len(s) > n THEN Len(s) - n + 1 ELSE 1, Len(s))

\* Mutant of LastN: the slice keeps the start of the list, [:n].
LastNHead(s, n) == SubSeq(s, 1, IF Len(s) < n THEN Len(s) ELSE n)

Take(s, n) == SubSeq(s, 1, IF Len(s) < n THEN Len(s) ELSE n)
LastN(s, n) == SubSeq(s, IF Len(s) > n THEN Len(s) - n + 1 ELSE 1, Len(s))

\* save_to_history(db, user, new_results): nothing for an empty list; else
\* history = (new + old)[:100], filenames = (old + new names)[-100:], commit.
SaveToHistory(u, new_results) ==
    /\ saves < MaxSaves
    /\ saves' = saves + 1
    /\ lastSave' = [user |-> u, results |-> new_results]
    /\ IF new_results = << >>
       THEN UNCHANGED <<analysis_history, processed_filenames>>
       ELSE /\ analysis_history' = [analysis_history EXCEPT ![u] =
                                      Take(new_results \o @, HistoryCap)]
            /\ processed_filenames' = [processed_filenames EXCEPT ![u] =
                  LastN(@ \o [i \in 1..Len(new_results) |-> new_results[i].filename],
                        HistoryCap)]
    /\ UNCHANGED <<pipeVars, auxVars>>

\* The result lists handed to save_to_history: n entries, told apart by the
\* call and their position; filenames repeat.
SaveLens == {0, 1, 2, 60, 101}
Results(c, n) == [i \in 1..n |-> [filename |-> FileName((i % 2) + 1), call |-> c, pos |-> i]]

\* ------------------------------------- save_to_history, concurrent callers

\* Caller c loads the row of user u (get_current_user: one query); the loaded
\* analysis_history and processed_filenames stay with the caller's session.
SaveRead(c, u, new_results) ==
    /\ savers[c].pc = "idle"
    /\ savers' = [savers EXCEPT ![c] =
                    [pc |-> "loaded", user |-> u, results |-> new_results,
                     history |-> analysis_history[u],
                     filenames |-> processed_filenames[u]]]
    /\ UNCHANGED <<pipeVars, histVars, lastReset, extraction>>

\* Mutant of HistoryBase: the list is read again from the row as it is stored
\* at the write.
HistoryBaseFresh(c) == analysis_history[savers[c].user]

\* current_history = list(user.analysis_history or []): the list the caller
\* loaded.
HistoryBase(c) == savers[c].history

\* The body of save_to_history run by caller c on the row it loaded: both
\* columns are computed from the loaded values and written whole.
SaveWrite(c) ==
    /\ savers[c].pc = "loaded"
    /\ savers' = [savers EXCEPT ![c].pc = "done"]
    /\ saves' = saves + 1
    /\ lastSave' = [user |-> savers[c].user, results |-> savers[c].results]
    /\ LET u == savers[c].user
           new_results == savers[c].results
       IN IF new_results = << >>
          THEN UNCHANGED <<analysis_history, processed_filenames>>
          ELSE /\ analysis_history' = [analysis_history EXCEPT ![u] =
                                         Take(new_results \o HistoryBase(c), HistoryCap)]
               /\ processed_filenames' = [processed_filenames EXCEPT ![u] =
                     LastN(savers[c].filenames
                             \o [i \in 1..Len(new_results) |-> new_results[i].filename],
                           HistoryCap)]
    /\ UNCHANGED <<pipeVars, lastReset, extraction>>

\* The result lists of the concurrent callers.
RaceLens == {0, 1, 2}

\* ---------------------------------------------------------- extract_text

\* Text is a sequence of characters.  A document is its bytes seen through the
\* parser: empty, unreadable (the reader cannot be built) or readable, with
\* its parts (pages, paragraphs, chunks of bytes), each a text or a part whose
\* extraction raises.
MaxParts == 2
DocxMime == "application/vnd.openxmlformats-officedocument.wordprocessingml.document"
PlainMime == "text/plain"
Mimes == {PdfMime, DocxMime, PlainMime, "image/png"}
Fault == <<"!">>
PartTexts == {<< >>, <<"a">>, <<" ", "b">>}
Parts == PartTexts \cup {Fault}
PartSeqs == UNION {[1..n -> Parts] : n \in 0..MaxParts}
Contents == {[kind |-> "empty", parts |-> << >>]}
            \cup {[kind |-> k, parts |-> ps] : k \in {"readable", "unreadable"}, ps \in PartSeqs}

\* " ".join(ts)
RECURSIVE Join(_)
Join(ts) ==
    IF ts = << >> THEN << >>
    ELSE IF Len(ts) = 1 THEN ts[1]
    ELSE ts[1] \o <<" ">> \o Join(Tail(ts))

\* text.strip()
RECURSIVE Strip(_)
Strip(t) ==
    IF t = << >> THEN t
    ELSE IF Head(t) = " " THEN Strip(Tail(t))
    ELSE IF t[Len(t)] = " " THEN Strip(SubSeq(t, 1, Len(t) - 1))
    ELSE t

\* The loop over the parts from the k-th on: a part without text is skipped,
\* a part whose extraction raises ends the loop with the exception.
RECURSIVE CollectTexts(_, _, _)
CollectTexts(parts, k, page_texts) ==
    IF k > Len(parts) THEN [texts |-> page_texts, raised |-> FALSE]
    ELSE IF parts[k] = Fault THEN [texts |-> page_texts, raised |-> TRUE]
    ELSE CollectTexts(parts, k + 1,
                      IF parts[k] # << >> THEN Append(page_texts, parts[k]) ELSE page_texts)

\* content.decode("utf-8", errors="ignore"): bytes that do not decode are left out.
RECURSIVE Decode(_)
Decode(parts) ==
    IF parts = << >> THEN << >>
    ELSE (IF Head(parts) = Fault THEN << >> ELSE Head(parts)) \o Decode(Tail(parts))

\* extract_text(content, mime_type): text = "" until a branch has run to its
\* end and assigns it; an exception inside the try is caught and printed; the
\* value of text is returned stripped.
ExtractText(content, mime_type) ==
    LET loop == CollectTexts(content.parts, 1, << >>)
        text ==
            IF content.kind = "empty" THEN << >>
            ELSE IF mime_type \in {PdfMime, DocxMime}
            THEN IF content.kind = "unreadable" \/ loop.raised THEN << >>
                 ELSE Join(loop.texts)
            ELSE IF mime_type = PlainMime THEN Decode(content.parts)
            ELSE << >>
    IN [text |-> Strip(text), raised |-> FALSE]

\* One call of extract_text.
ExtractCall(content, mime_type) ==
    /\ extraction' = [called |-> TRUE, mime |-> mime_type, kind |-> content.kind,
                      parts |-> content.parts,
                      text |-> ExtractText(content, mime_type).text,
                      raised |-> ExtractText(content, mime_type).raised]
    /\ UNCHANGED <<pipeVars, histVars, savers, lastReset>>

\* ------------------------------------------------------- specifications

Next ==
    \/ \E u \in Requesters, n \in 1..MaxUpload : UploadBegin(u, n)
    \/ \E s3 \in {"ok", "raise"}, f \in Faults : UploadFile(s3, f)
    \/ \E i \in 1..MaxUpload : S3Start(i)
    \/ \E i \in 1..MaxUpload, f \in Faults : \E r \in Responses(i) : S3Respond(i, r, f)
    \/ \E i \in 1..MaxUpload, f \in Faults : S3Handler(i, f)
    \/ \E u \in Requesters, st \in {200, 403}, L \in Listings : GetFolder(u, st, L)
    \/ DriveStart
    \/ \E f \in Faults : DriveCreate(f)
    \/ \E f \in Faults : \E r \in Responses(dtask.idx) : DriveRespond(r, f)
    \/ \E f \in Faults : DriveHandler(f)
    \/ DriveClose
    \/ \E u \in Users :
          \E failing \in SUBSET {jobs[j].s3_key : j \in OwnedBy(jobs, u)} :
              ResetHistory(u, failing) /\ UNCHANGED lastReset

\* The pipeline.  save_to_history has no caller in the repository, so no
\* action of the pipeline runs it.
Spec == Init /\ [][Next]_vars

HistNext == \E u \in Users, n \in SaveLens : SaveToHistory(u, Results(saves + 1, n))

\* save_to_history applied to result lists of the lengths of SaveLens.
SpecHistory == Init /\ [][HistNext]_vars

RaceNext ==
    \E c \in Callers :
        \/ \E u \in Users, n \in RaceLens : SaveRead(c, u, Results(c, n))
        \/ SaveWrite(c)

\* Two callers of save_to_history, each loading the user row and then running
\* the function, in any interleaving.
SpecRace == Init /\ [][RaceNext]_vars

ExtractNext == \E content \in Contents, mime_type \in Mimes : ExtractCall(content, mime_type)

\* extract_text applied to documents of up to MaxParts parts.
SpecExtract == Init /\ [][ExtractNext]_vars

\* A store left by earlier requests of both users, all tasks ended: the rows of
\* the ids in S, owned as own says, PROCESSING or FAILED as st says; an
\* uploaded file's blob is in the bucket, a folder file has no key.
StoreOf(S, own, st) ==
    [j \in S |-> [NewRow(own[j], FileName(j[2]), IF j[1] = "up" THEN j[2] ELSE NoS3Key)
                    EXCEPT !.status = st[j]]]

InitReset ==
    /\ \E S \in SUBSET JobIds, own \in [JobIds -> Users],
          st \in [JobIds -> {PROCESSING, FAILED}] :
          /\ jobs = StoreOf(S, own, st)
          /\ blobs = {j[2] : j \in S \cap UploadIds}
          /\ creates = [j \in JobIds |-> IF j \in S THEN 1 ELSE 0]
          /\ posts = [j \in JobIds |-> IF j \in S THEN 1 ELSE 0]
          /\ termCalls = [j \in JobIds |-> IF j \in S /\ st[j] = FAILED THEN 1 ELSE 0]
    /\ upPc = "idle" /\ upUser = "u1" /\ upN = 0 /\ upIdx = 0
    /\ tasks = [i \in 1..MaxUpload |-> NoTask]
    /\ drPc = "idle" /\ drUser = "u1" /\ drStatus = 0 /\ drListing = << >> /\ drFiles = << >>
    /\ dtask = [pc |-> "none", idx |-> 0, db |-> "none"]
    /\ resp = [j \in JobIds |-> NoResp]
    /\ faulted = {}
    /\ noops = {}
    /\ analysis_history = [u \in Users |-> << >>]
    /\ processed_filenames = [u \in Users |-> << >>]
    /\ saves = 0
    /\ lastSave = [user |-> "u1", results |-> << >>]
    /\ savers = [c \in Callers |-> NoSaver]
    /\ lastReset = NoReset
    /\ extraction = NoExtraction

ResetNext ==
    \E u \in Users :
        \E failing \in SUBSET {jobs[j].s3_key : j \in OwnedBy(jobs, u)} :
            ResetHistory(u, failing) /\ lastReset' = [user |-> u, failing |-> failing]

\* reset_history called on stores that hold rows of both users.
SpecReset == InitReset /\ [][ResetNext]_vars

PipeNext ==
    \/ \E u \in Requesters, n \in 1..MaxUpload : UploadBegin(u, n)
    \/ \E s3 \in {"ok", "raise"}, f \in Faults : UploadFile(s3, f)
    \/ \E i \in 1..MaxUpload : S3Start(i)
    \/ \E i \in 1..MaxUpload, f \in Faults : \E r \in Responses(i) : S3Respond(i, r, f)
    \/ \E i \in 1..MaxUpload, f \in Faults : S3Handler(i, f)
    \/ \E u \in Requesters, st \in {200, 403}, L \in Listings : GetFolder(u, st, L)
    \/ DriveStart
    \/ \E f \in Faults : DriveCreate(f)
    \/ \E f \in Faults : \E r \in Responses(dtask.idx) : DriveRespond(r, f)
    \/ \E f \in Faults : DriveHandler(f)
    \/ DriveClose

\* The pipeline in executions in which reset_history is never called.
SpecNoReset == Init /\ [][PipeNext]_vars

\* ------------------------------------------------------------- helpers

Terminal == {COMPLETED, FAILED}

\* The job's row exists, update_file_record was called for it with a terminal
\* status, and no store operation on it raised.
Settled(j) == j \in DOMAIN jobs /\ termCalls[j] >= 1 /\ j \notin faulted

\* A task can still act on job j.
TaskPending(j) ==
    IF j[1] = "up"
    THEN tasks[j[2]].pc \in {"queued", "post", "handler"}
    ELSE dtask.idx = j[2] /\ dtask.pc \in {"post", "handler"}

\* ---------------------------------------------------------------- C1
\* C1: for every job id the stored status only changes PROCESSING -> COMPLETED
\* or PROCESSING -> FAILED, and update_file_record is called with a terminal
\* status at most once for that job id.
C1_TerminalWrittenOnce ==
    [][\A j \in JobIds :
         /\ (j \in DOMAIN jobs /\ j \in DOMAIN jobs' /\ jobs'[j].status # jobs[j].status)
               => (jobs[j].status = PROCESSING /\ jobs'[j].status \in Terminal)
         /\ termCalls'[j] <= 1]_vars

UploadBatchOver ==
    upPc = "returned" /\ \A i \in 1..upN : tasks[i].pc \in {"done", "raised"}
DriveBatchOver == dtask.pc = "done"

C3_OwnJobOwnScore ==
    [][/\ \A i \in 1..MaxUpload :
             (tasks'[i] # tasks[i] /\ tasks[i].pc \in {"post", "handler"}) =>
                 \A j \in JobIds \ {<<"up", i>>} :
                     /\ j \in DOMAIN jobs <=> j \in DOMAIN jobs'
                     /\ j \in DOMAIN jobs => jobs'[j] = jobs[j]
       /\ upPc' = "returned" =>
             \A i \in 1..upN' : /\ creates'[<<"up", i>>] = 1
                                /\ tasks'[i].pc \notin {"none", "dropped"}
       /\ \A j \in UploadIds :
             (j \notin DOMAIN jobs /\ j \in DOMAIN jobs') => jobs'[j].status = PROCESSING
       /\ \A j \in UploadIds :
             (Settled(j)' /\ resp'[j].kind = "ok") =>
                 /\ jobs'[j].status = COMPLETED
                 /\ jobs'[j].score = IF resp'[j].body.match_score = NoKey THEN 0
                                     ELSE resp'[j].body.match_score
      ]_vars

\* Two uploaded files, both scoring calls succeeded with different scores, both
\* tasks are over: each job is COMPLETED with its own score.
C3_Witness ==
    /\ UploadBatchOver /\ upN >= 2
    /\ Settled(<<"up", 1>>) /\ Settled(<<"up", 2>>)
    /\ resp[<<"up", 1>>] = [kind |-> "ok", body |-> Body(1)]
    /\ resp[<<"up", 2>>] = [kind |-> "ok", body |-> Body(2)]
    /\ jobs[<<"up", 1>>].status = COMPLETED /\ jobs[<<"up", 1>>].score = 8
    /\ jobs[<<"up", 2>>].status = COMPLETED /\ jobs[<<"up", 2>>].score = 6

\* ---------------------------------------------------------------- C4
\* C4 (as a property of finite runs): no job is left PROCESSING once no task
\* can act on it any more, i.e. a PROCESSING job always has its request still
\* running or a task that has yet to write its terminal status.
C4_NoJobLeftProcessing ==
    \A j \in DOMAIN jobs :
        jobs[j].status = PROCESSING => (TaskPending(j) \/ (j[1] = "up" /\ upPc = "loop"))

\* ---------------------------------------------------------------- C5
\* C5: every job record in the store, whose creation did not itself raise, has
\* an analysis task scheduled for its id that is run (upload mode: the task
\* added by upload_files, run after the response), also when the upload or the
\* creation of a later file raises.
C5_EveryJobHasTask ==
    \A i \in 1..MaxUpload :
        (<<"up", i>> \in DOMAIN jobs /\ <<"up", i>> \notin faulted)
            => tasks[i].pc \notin {"none", "dropped"}

\* ---------------------------------------------------------------- C6
\* C6: when the drive batch task has finished, the user's history holds an entry
\* for every file whose job ended COMPLETED and none for a file whose job
\* ended FAILED.
C6_HistoryHoldsCompleted ==
    DriveBatchOver =>
        \A k \in 1..Len(drFiles) :
            LET j == <<"dr", k>>
                inHistory == \E n \in 1..Len(analysis_history[drUser]) :
                                analysis_history[drUser][n].filename = drFiles[k].name
            IN  j \in DOMAIN jobs =>
                    /\ jobs[j].status = COMPLETED => inHistory
                    /\ jobs[j].status = FAILED => ~inHistory

\* ---------------------------------------------------------------- C7
\* C7: after every save_to_history call the user's history has at most
\* HistoryCap entries and is the new results, in their order, followed by the
\* entries stored before, in their order, cut after HistoryCap entries (what is
\* dropped is the tail of that list); a call with an empty list changes neither
\* the history nor the filename list; no other user's history changes.
C7_PrependAndCap ==
    [][saves' = saves + 1 =>
         LET u == lastSave'.user
             new == lastSave'.results
             old == analysis_history[u]
             h == analysis_history'[u]
             total == Len(new) + Len(old)
         IN  /\ Len(h) <= HistoryCap
             /\ Len(h) = IF total < HistoryCap THEN total ELSE HistoryCap
             /\ \A i \in 1..Len(h) :
                   h[i] = IF i <= Len(new) THEN new[i] ELSE old[i - Len(new)]
             /\ new = << >> => /\ h = old
                               /\ processed_filenames'[u] = processed_filenames[u]
             /\ \A v \in Users \ {u} : analysis_history'[v] = analysis_history[v]
      ]_vars

\* After two calls the history is full: it starts with the second call's
\* entries and ends with entries of the first call, whose tail was dropped.
C7_Witness ==
    /\ saves = 2
    /\ Len(analysis_history["u1"]) = HistoryCap
    /\ analysis_history["u1"][1] = [filename |-> FileName(2), call |-> 2, pos |-> 1]
    /\ analysis_history["u1"][HistoryCap].call = 1
    /\ analysis_history["u1"][HistoryCap].pos = 40

\* ---------------------------------------------------------------- C8
\* C8: every job the drive batch creates is the job of one non-folder entry of
\* the listing and carries its name; no job carries the name of a folder entry;
\* no entry gets more than one job.
C8_JobsOnlyForFiles ==
    /\ \A k1, k2 \in 1..Len(drFiles) : k1 # k2 => drFiles[k1].id # drFiles[k2].id
    /\ \A k \in 1..MaxListing :
          LET j == <<"dr", k>> IN
          /\ creates[j] <= 1
          /\ (creates[j] = 1 \/ j \in DOMAIN jobs) =>
                /\ k <= Len(drFiles)
                /\ \E p \in 1..Len(drListing) :
                      drListing[p] = drFiles[k] /\ drListing[p].mimeType # FolderMime
          /\ j \in DOMAIN jobs =>
                /\ jobs[j].filename = drFiles[k].name
                /\ \A p \in 1..Len(drListing) :
                      drListing[p].mimeType = FolderMime
                          => drListing[p].name # jobs[j].filename

\* The listing is a folder followed by a file; the batch is over and has
\* created exactly one job, for the file.
C8_Witness ==
    /\ DriveBatchOver
    /\ Len(drListing) = 2 /\ drListing[1].mimeType = FolderMime
    /\ drListing[2].mimeType = PdfMime
    /\ creates[<<"dr", 1>>] = 1 /\ creates[<<"dr", 2>>] = 0
    /\ <<"dr", 1>> \in DOMAIN jobs /\ jobs[<<"dr", 1>>].filename = drListing[2].name

\* ---------------------------------------------------------------- C9
\* C9: a folder request whose listing call does not answer 200 is rejected, one
\* whose listing holds no non-folder entry ends "no files"; in both cases the
\* request leaves the job store as it was and schedules no task, and no job of
\* the batch ever exists.
C9_NoJobWithoutFiles ==
    [][/\ (drPc = "idle" /\ drPc' # "idle") =>
             /\ drStatus' # 200 => drPc' = "rejected"
             /\ (drStatus' = 200 /\ \A p \in 1..Len(drListing') :
                                       drListing'[p].mimeType = FolderMime)
                    => drPc' = "nofiles"
             /\ drPc' \in {"rejected", "nofiles"} => (jobs' = jobs /\ dtask' = dtask)
       /\ drPc' \in {"rejected", "nofiles"} =>
             /\ dtask'.pc = "none"
             /\ \A j \in DriveIds : creates'[j] = 0 /\ j \notin DOMAIN jobs'
      ]_vars

\* The listing call answered 200 with folders only: "No files found.".
C9_Witness ==
    /\ drPc = "nofiles" /\ drStatus = 200
    /\ Len(drListing) >= 1
    /\ dtask.pc = "none" /\ jobs = << >>

\* --------------------------------------------------------------- C10
\* C10: update_file_record with an id that has no row changes and creates no
\* row, raises nothing and returns None; a task whose terminal update finds no
\* row (reset_history removed it while the task was in flight) leaves the store
\* as it is and is over for that job; a row only appears by create_initial_record.
C10_MissingIdIsNoOp ==
    [][/\ \A j \in JobIds \ DOMAIN jobs : \A f \in Faults :
             /\ UpdateFileRecord(jobs, j, FAILED, NoScore, NoDetails, f)
                   = [jobs |-> jobs, raised |-> FALSE, ret |-> "None"]
             /\ UpdateFileRecord(jobs, j, COMPLETED, 8, "d", f)
                   = [jobs |-> jobs, raised |-> FALSE, ret |-> "None"]
       /\ \A j \in JobIds :
             (termCalls'[j] # termCalls[j] /\ j \notin DOMAIN jobs) =>
                 /\ jobs' = jobs
                 /\ faulted' = faulted
                 /\ ~TaskPending(j)'
       /\ \A j \in JobIds :
             (j \notin DOMAIN jobs /\ j \in DOMAIN jobs') => creates'[j] = creates[j] + 1
      ]_vars

\* The job of the first uploaded file was created, reset_history removed it
\* while its task was in flight, the task's terminal update found no row, and
\* the task is over with the row still absent.
C10_Witness ==
    /\ <<"up", 1>> \in noops
    /\ creates[<<"up", 1>>] = 1
    /\ <<"up", 1>> \notin DOMAIN jobs
    /\ tasks[1].pc = "done"

\* ------------------------------------------------------------------ C11

\* C11: in every reachable state a job whose status is PROCESSING or FAILED
\* has score 0 and empty details.
C11_UnscoredUnlessCompleted ==
    \A j \in DOMAIN jobs :
        jobs[j].status \in {PROCESSING, FAILED} =>
            jobs[j].score = 0 /\ jobs[j].details = EmptyDetails

\* ------------------------------------------------------------------ C12

\* C12: whatever the moment at which /history is read, a job it shows as
\* COMPLETED carries the score and the details that the scoring service
\* returned for that job: status, score and details appear together.
C12_CompletedShownWithItsScore ==
    \A u \in Users :
        LET h == GetHistory(jobs, u) IN
        \A n \in 1..Len(h) :
            h[n].status = COMPLETED =>
                /\ resp[h[n].id].kind = "ok"
                /\ h[n].score = GetScore(resp[h[n].id].body)
                /\ h[n].details = GetDetails(resp[h[n].id].body)

\* A read while the task of the second file is still waiting for its answer:
\* the second job is shown PROCESSING, the first COMPLETED with its score.
C12_Witness ==
    /\ tasks[2].pc = "post"
    /\ LET h == GetHistory(jobs, "u1") IN
       /\ Len(h) = 2
       /\ h[1].id = <<"up", 2>> /\ h[1].status = PROCESSING
       /\ h[2].id = <<"up", 1>> /\ h[2].status = COMPLETED
       /\ h[2].score = Body(1).match_score /\ h[2].details = Body(1).analysis_details

\* ------------------------------------------------------------------ C13

\* C13: a job that a step creates, in either ingestion mode, is stored with
\* status PROCESSING, score 0 and empty details, and no job ever has the
\* status PENDING.
C13_CreatedProcessing ==
    [][ /\ \A j \in DOMAIN jobs' \ DOMAIN jobs :
              /\ jobs'[j].status = PROCESSING
              /\ jobs'[j].score = 0
              /\ jobs'[j].details = EmptyDetails
        /\ \A j \in DOMAIN jobs' : jobs'[j].status # PENDING ]_vars

\* The folder task has just created the job of its second file; the job of the
\* first file has its outcome.
C13_Witness ==
    /\ dtask.pc = "post" /\ dtask.idx = 2
    /\ <<"dr", 2>> \in DOMAIN jobs
    /\ jobs[<<"dr", 2>>].status = PROCESSING
    /\ jobs[<<"dr", 2>>].score = 0
    /\ jobs[<<"dr", 1>>].status = COMPLETED

\* ------------------------------------------------------------------ C14

\* C14: a folder batch is processed strictly one file after the other.  The
\* job of file k+1 is not created and its scoring call not issued before the
\* terminal write of file k was made (the row of file k, unless reset_history
\* has deleted it, is then COMPLETED or FAILED); at most one job of the batch
\* is PROCESSING at any time; and a terminal write for file k is made only
\* while no later file has a job, a scoring call or a terminal write.
C14_DriveBatchSequential ==
    [][ /\ \A k \in 1..(MaxListing - 1) :
              (creates'[<<"dr", k + 1>>] >= 1 \/ posts'[<<"dr", k + 1>>] >= 1) =>
                  /\ termCalls'[<<"dr", k>>] >= 1
                  /\ <<"dr", k>> \in DOMAIN jobs' => jobs'[<<"dr", k>>].status \in Terminal
        /\ Cardinality({j \in DriveIds \cap DOMAIN jobs' : jobs'[j].status = PROCESSING}) <= 1
        /\ \A k \in 1..MaxListing :
              termCalls'[<<"dr", k>>] > termCalls[<<"dr", k>>] =>
                  \A i \in (k + 1)..MaxListing :
                      /\ creates[<<"dr", i>>] = 0
                      /\ posts[<<"dr", i>>] = 0
                      /\ termCalls[<<"dr", i>>] = 0 ]_vars

\* The scoring call of the second file is in flight, the job of the first file
\* is FAILED.
C14_Witness ==
    /\ dtask.pc = "post" /\ dtask.idx = 2
    /\ posts[<<"dr", 2>>] = 1 /\ termCalls[<<"dr", 2>>] = 0
    /\ jobs[<<"dr", 2>>].status = PROCESSING
    /\ jobs[<<"dr", 1>>].status = FAILED
    /\ termCalls[<<"dr", 1>>] = 1

\* ------------------------------------------------------------------ C15

\* C15: the scoring service is called at most once per job, and never after
\* the job's call has had its outcome; once the task is through with a job
\* whose call returned non-200, raised (a timeout included) or returned a
\* body that does not parse, update_file_record was called for it with FAILED
\* and the job, when that update was stored, is FAILED.
C15_ScoredOnceNoRetry ==
    [][ \A j \in JobIds :
          /\ posts'[j] <= 1
          /\ posts'[j] > posts[j] => resp[j].kind = "none" /\ termCalls[j] = 0
          /\ (resp'[j].kind \in {"non200", "raise", "badbody"} /\ ~TaskPending(j)') =>
                /\ posts'[j] = 1
                /\ termCalls'[j] >= 1
                /\ Settled(j)' => jobs'[j].status = FAILED ]_vars

\* The call for the first uploaded file raised; its task has ended after one
\* call and the job is FAILED.
C15_Witness ==
    /\ resp[<<"up", 1>>].kind = "raise"
    /\ tasks[1].pc = "done"
    /\ posts[<<"up", 1>>] = 1
    /\ termCalls[<<"up", 1>>] = 1
    /\ jobs[<<"up", 1>>].status = FAILED

\* ------------------------------------------------------------------ C16

\* C16: two save_to_history calls for the same user can lose an update.  When
\* each of the two callers loaded the user's row before the other wrote, both
\* with results to save, then after both writes the user's history holds the
\* entries of the later writer and none of the other call.
C16_LaterWriterDropsEarlier ==
    \A c \in Callers : \A e \in Callers \ {c} :
        ( /\ savers[c].pc = "done" /\ savers[e].pc = "done"
          /\ savers[c].user = savers[e].user
          /\ savers[c].results # << >> /\ savers[e].results # << >>
          /\ savers[c].history = << >> /\ savers[e].history = << >>
          /\ lastSave.results = savers[c].results )
        => LET h == analysis_history[savers[c].user] IN
           /\ h = Take(savers[c].results, HistoryCap)
           /\ \A n \in 1..Len(h) : h[n].call # e

\* Both callers have saved for u1, each on the row loaded before either wrote;
\* caller 2 wrote last and the entry of caller 1 is gone from the history.
C16_Witness ==
    /\ savers[1].pc = "done" /\ savers[2].pc = "done"
    /\ savers[1].user = "u1" /\ savers[2].user = "u1"
    /\ savers[1].history = << >> /\ savers[2].history = << >>
    /\ Len(savers[1].results) = 1 /\ Len(savers[2].results) = 2
    /\ lastSave.results = savers[2].results
    /\ Len(analysis_history["u1"]) = 2
    /\ \A n \in 1..2 : analysis_history["u1"][n].call = 2

\* ------------------------------------------------------------------ C17

\* The pages of ps before the first page whose extraction raises.
RECURSIVE BeforeFault(_)
BeforeFault(ps) ==
    IF ps = << >> \/ Head(ps) = Fault THEN << >>
    ELSE <<Head(ps)>> \o BeforeFault(Tail(ps))

\* C17: extract_text never raises, and for a PDF it returns the stripped,
\* space-joined text of the pages extracted before the first page whose
\* extraction raises (of all the pages when none raises).
C17_ReturnsTextSoFar ==
    (extraction.called /\ extraction.mime = PdfMime /\ extraction.kind = "readable") =>
        /\ ~extraction.raised
        /\ extraction.text =
              Strip(Join(SelectSeq(BeforeFault(extraction.parts), LAMBDA t : t # << >>)))

\* ------------------------------------------------------------------ C18

\* C18: a reset_history call by user u removes every row that u owns, whichever
\* of its blob deletions fail, rows without a blob key included, and leaves
\* every row of the other users as it was; the blobs removed are those of u's
\* rows whose deletion did not fail.
C18_ResetRemovesOwnRowsOnly ==
    [][ LET u == lastReset'.user
            failing == lastReset'.failing
        IN /\ DOMAIN jobs' = DOMAIN jobs \ OwnedBy(jobs, u)
           /\ \A j \in DOMAIN jobs' : jobs'[j] = jobs[j]
           /\ blobs' = blobs \ ({jobs[j].s3_key : j \in OwnedBy(jobs, u)} \ failing) ]_vars

\* u1 has reset: the deletion of one of its blobs failed (the blob is still
\* in the bucket), its uploaded file's row and its folder file's row are gone,
\* and u2 still has rows.
C18_Witness ==
    /\ lastReset.user = "u1"
    /\ 1 \in lastReset.failing /\ 1 \in blobs
    /\ creates[<<"up", 1>>] = 1 /\ <<"up", 1>> \notin DOMAIN jobs
    /\ creates[<<"dr", 1>>] = 1 /\ <<"dr", 1>> \notin DOMAIN jobs
    /\ OwnedBy(jobs, "u1") = {}
    /\ OwnedBy(jobs, "u2") # {}

\* ------------------------------------------------------------------ C19

\* C19: after every save_to_history call the processed-filenames list of each
\* user has at most 100 entries and is the end of the list of all filenames
\* appended so far, in the order of appending, latest last: what is dropped is
\* dropped from the oldest end, and a filename appended twice is kept twice.
C19_FilenamesSlidingWindow ==
    [][ \A u \in Users :
          LET added == IF lastSave'.user = u
                       THEN [i \in 1..Len(lastSave'.results) |-> lastSave'.results[i].filename]
                       ELSE << >>
              all == processed_filenames[u] \o added
              new == processed_filenames'[u]
          IN /\ Len(new) <= HistoryCap
             /\ Len(new) = IF Len(all) < HistoryCap THEN Len(all) ELSE HistoryCap
             /\ \A i \in 0..(Len(new) - 1) : new[Len(new) - i] = all[Len(all) - i] ]_vars

\* Two calls for u1, of 101 and then 60 results: the list is full, it ends with
\* the 60 filenames of the second call, starts with the 62nd of the first, and
\* holds the same filename many times.
C19_Witness ==
    /\ saves = 2 /\ lastSave.user = "u1" /\ Len(lastSave.results) = 60
    /\ LET names == processed_filenames["u1"] IN
       /\ Len(names) = HistoryCap
       /\ \A i \in 1..60 : names[40 + i] = lastSave.results[i].filename
       /\ names[1] = Results(1, 101)[62].filename
       /\ names[40] = Results(1, 101)[101].filename
       /\ names[1] = names[3]

\* ------------------------------------------------------------------ C20

\* C20: a background task that has ended, whichever way, has closed the
\* database session it opened.
C20_TaskSessionsClosed ==
    /\ \A i \in 1..MaxUpload : tasks[i].pc \in {"done", "raised"} => tasks[i].db = "closed"
    /\ dtask.pc \in {"done", "crashed"} => dtask.db = "closed"

\* ------------------------------------------------------------------ C21

\* C21: when reset_history is never called, the row of a job is committed
\* before the scoring call for the job is issued, every terminal
\* update_file_record call is made after that call was issued and finds the
\* row, and no update falls into the missing-row case.
C21_RowCommittedBeforeScoring ==
    [][ /\ \A j \in JobIds :
              /\ posts'[j] > posts[j] => creates'[j] >= 1 /\ j \in DOMAIN jobs'
              /\ termCalls'[j] > termCalls[j] =>
                    /\ posts[j] >= 1
                    /\ j \in DOMAIN jobs /\ j \in DOMAIN jobs'
        /\ noops' = {} ]_vars

\* A folder batch of two files has ended: both jobs had their terminal update,
\* both rows are there with a terminal status, no update missed its row.
C21_Witness ==
    /\ dtask.pc = "done" /\ Len(drFiles) = 2
    /\ \A k \in 1..2 :
          /\ posts[<<"dr", k>>] = 1
          /\ termCalls[<<"dr", k>>] >= 1
          /\ <<"dr", k>> \in DOMAIN jobs
          /\ jobs[<<"dr", k>>].status \in Terminal
    /\ noops = {}

====
